---- MODULE Spec2Model ----
(***************************************************************************)
(* Model of the research pipeline of src/src/workflow.py: the Workflow      *)
(* class, its three graph nodes (extract_tools, research, analyze), the     *)
(* driver (run) and the progress-event emission (_emit).                    *)
(*                                                                          *)
(* The external services (search, scrape, LLM) are the environment: every   *)
(* call draws its response from a small set (a result, an empty result or   *)
(* an exception).                                                           *)
(***************************************************************************)
EXTENDS Integers, Sequences, FiniteSets, TLC

VARIABLES
    pc,        \* pc[r]: position of run r in Workflow.run and the graph nodes
    state,     \* state[r]: the ResearchState threaded through the graph
    local,     \* local[r]: local variables of the node being executed
    callback,  \* Workflow._progress_callback (one per instance, shared by runs)
    log,       \* every call of _emit, in order: who emitted, which callback got it
    returned,  \* returned[r]: the ResearchState run handed back to its caller
    visited,   \* visited[r]: the graph nodes run r has entered, in order
    last,      \* the external responses consumed by the latest step
    script     \* script[r]: the responses run r consumed (kept for replay only)

vars == <<pc, state, local, callback, log, returned, visited, last, script>>

-----------------------------------------------------------------------------
(* Bounds of the model *)

\* the largest number of lines in the extraction LLM's response
MaxLines == 5

\* characters stood for by one token of a page's markdown
ChunkLen == 500

-----------------------------------------------------------------------------
(* Program constants *)

\* search_companies(article_query, num_results=3)
ExtractNumResults == 3

\* scraped.markdown[:1500]
MarkdownPrefix == 1500

\* search_companies(state.query, num_results=4)
FallbackNumResults == 4

\* extracted_tools[:4]
MaxTools == 4

\* search_companies(tool_name + " official site", num_results=1)
ToolNumResults == 1

\* Python's None
None == "None"

Runs == {1, 2}

Queries == {"q"}

-----------------------------------------------------------------------------
(* Values of the environment *)

Min(a, b) == IF a < b THEN a ELSE b

SeqsUpTo(S, n) == UNION {[1..k -> S] : k \in 0..n}

\* result records of a search: url, markdown and metadata.title are optional
FullResult == [url |-> "u1", markdown |-> "snippet", metadata |-> [title |-> <<"B">>]]
BareResult == [markdown |-> ""]
Results == {FullResult, BareResult}

\* search_companies(query, num_results): raises, returns nothing, or returns an
\* object whose data holds at most num_results records
SearchResponses(results, num_results) ==
    {[kind |-> "raise"], [kind |-> "none"]}
        \cup {[kind |-> "ok", data |-> d] : d \in SeqsUpTo(results, num_results)}

\* scrape_company_pages(url): raises, returns nothing, or returns an object
\* whose markdown is a sequence of tokens (empty: no markdown)
Pages == {<<>>, <<"p1", "p2", "p3", "p4">>}
ScrapeResponses ==
    {[kind |-> "raise"], [kind |-> "none"]}
        \cup {[kind |-> "ok", markdown |-> m] : m \in Pages}

\* lines of the extraction LLM's response.content, each a sequence of tokens;
\* " " is whitespace
RawLines == {<<>>, <<" ">>, <<" ", "A", " ">>}
ExtractLLMResponses ==
    {[kind |-> "raise"]}
        \cup {[kind |-> "ok", lines |-> l] : l \in SeqsUpTo(RawLines, MaxLines)}

\* what the structured-output LLM returns for one tool
GoodAnalysis ==
    [pricing_model |-> "Freemium", is_open_source |-> "True",
     tech_stack |-> <<"python">>, description |-> "analysed",
     api_available |-> "True", language_support |-> <<"go">>,
     integration_capabilities |-> <<"github">>]
AnalysisResponses == {[kind |-> "raise"], [kind |-> "ok", analysis |-> GoodAnalysis]}

\* what the LLM returns for the recommendation prompt
RecommendLLMResponses == {[kind |-> "raise"], [kind |-> "ok", content |-> "recommendation"]}

Unused == [kind |-> "unused"]

\* str(e) of the exception a failing service call raises
Error == "service error"

\* str(e) of the exceptions of the state model, the graph driver and a callback
ValidationError == "validation error"
DriverError == "driver error"
CallbackError == "callback error"

-----------------------------------------------------------------------------
(* Helpers for Python idioms *)

\* d.get(key, default)
Get(d, key, default) == IF key \in DOMAIN d THEN d[key] ELSE default

\* `search_results and getattr(search_results, "data", None)`
HasData(sr) == sr.kind = "ok" /\ sr.data # <<>>

\* `scraped and getattr(scraped, "markdown", None)`
HasMarkdown(sc) == sc.kind = "ok" /\ sc.markdown # <<>>

\* scraped.markdown[:1500]
Prefix(markdown) == SubSeq(markdown, 1, Min(Len(markdown), MarkdownPrefix \div ChunkLen))

\* str.strip() on a line of tokens
RECURSIVE StripLeft(_)
StripLeft(s) == IF s # <<>> /\ Head(s) = " " THEN StripLeft(Tail(s)) ELSE s

RECURSIVE StripRight(_)
StripRight(s) ==
    IF s # <<>> /\ s[Len(s)] = " " THEN StripRight(SubSeq(s, 1, Len(s) - 1)) ELSE s

Strip(s) == StripRight(StripLeft(s))

NonEmpty(s) == s # <<>>

\* the comprehension without its `if name.strip()`
ToolNamesUnfiltered(lines) == [i \in 1..Len(lines) |-> Strip(lines[i])]

\* [name.strip() for name in response.content.strip().split("\n") if name.strip()]
ToolNames(lines) == SelectSeq([i \in 1..Len(lines) |-> Strip(lines[i])], NonEmpty)

\* a slice that is forgotten
SliceToolsAll(extracted_tools) == extracted_tools

\* extracted_tools[:4]
SliceTools(extracted_tools) == SubSeq(extracted_tools, 1, Min(Len(extracted_tools), MaxTools))

\* [result.get("metadata", {}).get("title", "Unknown") for result in data]
Titles(sr) ==
    IF sr.kind = "ok"
    THEN [i \in 1..Len(sr.data) |-> Get(Get(sr.data[i], "metadata", <<>>), "title", <<"Unknown">>)]
    ELSE <<>>

-----------------------------------------------------------------------------
(* Data model *)

\* ResearchState declares query as a required string
ValidQuery(query) == query # None

\* ResearchState(query=query)
InitialState(query) ==
    [query |-> query, extracted_tools |-> <<>>, companies |-> <<>>, analysis |-> None]

\* the fields of a CompanyInfo the constructor call leaves at their defaults
CompanyDefaults ==
    [pricing_model |-> None, is_open_source |-> None, api_available |-> None,
     language_support |-> <<>>, integration_capabilities |-> <<>>]

\* a constructor call with two arguments swapped
CompanyInfoSwapped(name, description, website) ==
    [name |-> name, description |-> website, website |-> description,
     tech_stack |-> <<>>, competitors |-> <<>>] @@ CompanyDefaults

\* CompanyInfo(name=..., description=..., website=..., tech_stack=[], competitors=[])
CompanyInfo(name, description, website) ==
    [name |-> name, description |-> description, website |-> website,
     tech_stack |-> <<>>, competitors |-> <<>>] @@ CompanyDefaults

\* the CompanyAnalysis built in the except branch of _analyze_company_content
SentinelAnalysis ==
    [pricing_model |-> "Unknown", is_open_source |-> None, tech_stack |-> <<>>,
     description |-> "Failed", api_available |-> None, language_support |-> <<>>,
     integration_capabilities |-> <<>>]

\* a helper without its try/except: the exception reaches the caller
AnalyzeCompanyContentUncaught(resp) == resp

\* _analyze_company_content: the structured LLM call; any exception is caught
\* and the sentinel returned in its place
AnalyzeCompanyContent(resp) ==
    IF resp.kind = "raise" THEN [kind |-> "ok", analysis |-> SentinelAnalysis] ELSE resp

\* the seven assignments company.<field> = analysis.<field>
WithAnalysis(company, analysis) ==
    [k \in DOMAIN company |-> IF k \in DOMAIN analysis THEN analysis[k] ELSE company[k]]

\* a serialisation that leaves out what the analysis filled in
CompanyDictSeedOnly(company) ==
    [k \in DOMAIN company |->
        IF k \in DOMAIN CompanyDefaults THEN CompanyDefaults[k] ELSE company[k]]

\* company.dict()
CompanyDict(company) == [k \in DOMAIN company |-> company[k]]

\* a driver that builds the next state from the update alone
MergeReplacing(st, update) ==
    [k \in DOMAIN st |-> IF k \in DOMAIN update THEN update[k] ELSE InitialState(st.query)[k]]

\* the node's partial update merged into the state by the graph driver
Merge(st, update) == [k \in DOMAIN st |-> IF k \in DOMAIN update THEN update[k] ELSE st[k]]

NoLocal == [search_results |-> Unused, i |-> 0, all_content |-> <<>>,
            tool_names |-> <<>>, companies |-> <<>>]

-----------------------------------------------------------------------------
(* The graph of _build_workflow *)

EntryPoint == "extract_tools"

\* a graph whose first edge bypasses the research node
EdgeSkipping == [extract_tools |-> "analyze", research |-> "analyze", analyze |-> "END"]

Edge == [extract_tools |-> "research", research |-> "analyze", analyze |-> "END"]

\* the node a position belongs to
NodeOf(p) ==
    CASE p \in {"extract_tools", "extract_scrape", "extract_llm"} -> "extract_tools"
      [] p \in {"research", "research_loop"} -> "research"
      [] p = "analyze" -> "analyze"
      [] OTHER -> "END"

-----------------------------------------------------------------------------
(* The nodes, as functions from the state, the locals and the responses of   *)
(* the services to an outcome: the events emitted, and either the next       *)
(* position inside the node with its locals, or RETURN with the node's       *)
(* partial update.                                                           *)

Return(evs, update) == [evs |-> evs, goto |-> "RETURN", local |-> NoLocal, update |-> update]

Continue(evs, goto, loc) == [evs |-> evs, goto |-> goto, local |-> loc, update |-> <<>>]

\* an exception leaves the node (and so workflow.invoke) after evs were emitted
Raise(evs) == [evs |-> evs, goto |-> "RAISE", local |-> NoLocal, update |-> <<>>]

ErrorEvent(prefix, e) == [phase |-> "error", error |-> <<prefix, e>>]

\* an except branch that reports nothing
ExtractFailSilent(evs, e) == Return(evs, [extracted_tools |-> <<>>])

\* except branch of _extract_tools_step
ExtractFail(evs, e) ==
    Return(evs \o <<ErrorEvent("extract_tools failed: ", e)>>, [extracted_tools |-> <<>>])

\* _extract_tools_step up to the search
ExtractToolsSearch(st, sr) ==
    LET start == [phase |-> "extract_tools_start", query |-> st.query]
    IN  IF sr.kind = "raise" THEN ExtractFail(<<start>>, Error)
        ELSE Continue(<<start>>,
                      IF HasData(sr) THEN "extract_scrape" ELSE "extract_llm",
                      [NoLocal EXCEPT !.search_results = sr, !.i = 1])

\* one iteration of `for result in search_results.data`
ExtractToolsScrape(loc, sc) ==
    LET data == loc.search_results.data
        all_content == IF HasMarkdown(sc)
                       THEN loc.all_content \o Prefix(sc.markdown) \o <<"\n\n">>
                       ELSE loc.all_content
    IN  IF sc.kind = "raise" THEN ExtractFail(<<>>, Error)
        ELSE Continue(<<>>,
                      IF loc.i + 1 > Len(data) THEN "extract_llm" ELSE "extract_scrape",
                      [loc EXCEPT !.i = loc.i + 1, !.all_content = all_content])

\* the LLM call of _extract_tools_step and what follows it
ExtractToolsLLM(loc, resp) ==
    IF resp.kind = "raise" THEN ExtractFail(<<>>, Error)
    ELSE LET tool_names == ToolNames(resp.lines)
         IN  Return(<<[phase |-> "extracted_tools", tools |-> tool_names]>>,
                    [extracted_tools |-> tool_names])

\* an except branch that closes the stage as if the loop had completed
ResearchFailAsDone(evs, e) ==
    Return(evs \o <<[phase |-> "research_done", count |-> 0]>>, [companies |-> <<>>])

\* except branch of _research_step
ResearchFail(evs, e) ==
    Return(evs \o <<ErrorEvent("research failed: ", e)>>, [companies |-> <<>>])

\* _research_step up to the loop
ResearchBegin(st, sr) ==
    LET extracted_tools == st.extracted_tools
        fallback == [phase |-> "research_fallback", query |-> st.query]
        begin(evs, tool_names) ==
            Continue(evs \o <<[phase |-> "research_start", tools |-> tool_names]>>,
                     "research_loop",
                     [NoLocal EXCEPT !.tool_names = tool_names, !.i = 1])
    IN  IF extracted_tools = <<>>
        THEN IF sr.kind = "raise" THEN ResearchFail(<<fallback>>, Error)
             ELSE begin(<<fallback>>, Titles(sr))
        ELSE begin(<<>>, SliceTools(extracted_tools))

\* the search queries the nodes build
ArticleQuery(query) == <<query, " tools comparison best alternatives">>
ToolQuery(tool_name) == tool_name \o <<" official site">>

\* a loop that records a placeholder for a tool nothing was found for
ToolSkippedRecorded(loc, start) ==
    LET company == CompanyInfo(loc.tool_names[loc.i], "", "")
    IN  Continue(<<start, [phase |-> "company_ready", company |-> CompanyDict(company)]>>,
                 "research_loop",
                 [loc EXCEPT !.i = loc.i + 1, !.companies = Append(loc.companies, company)])

\* `continue`: no search result for the tool
ToolSkipped(loc, start) ==
    Continue(<<start>>, "research_loop", [loc EXCEPT !.i = loc.i + 1])

\* an iteration that puts the new record in front of the list
ResearchToolPrepending(loc, inp) ==
    LET tool_name == loc.tool_names[loc.i]
        start == [phase |-> "research_tool_start", tool |-> tool_name]
        result == inp.search.data[1]
        url == Get(result, "url", "")
        seed == CompanyInfo(tool_name, Get(result, "markdown", ""), url)
        analysed == AnalyzeCompanyContent(inp.analysis)
        company == IF HasMarkdown(inp.scrape) THEN WithAnalysis(seed, analysed.analysis) ELSE seed
    IN  IF inp.search.kind = "raise" THEN ResearchFail(<<start>>, Error)
        ELSE IF ~HasData(inp.search) THEN ToolSkipped(loc, start)
        ELSE IF inp.scrape.kind = "raise" THEN ResearchFail(<<start>>, Error)
        ELSE IF HasMarkdown(inp.scrape) /\ analysed.kind = "raise"
             THEN ResearchFail(<<start>>, Error)
        ELSE Continue(<<start, [phase |-> "company_ready", company |-> CompanyDict(company)]>>,
                      "research_loop",
                      [loc EXCEPT !.i = loc.i + 1, !.companies = <<company>> \o loc.companies])

\* one iteration of `for tool_name in tool_names`
ResearchTool(loc, inp) ==
    LET tool_name == loc.tool_names[loc.i]
        start == [phase |-> "research_tool_start", tool |-> tool_name]
        result == inp.search.data[1]
        url == Get(result, "url", "")
        seed == CompanyInfo(tool_name, Get(result, "markdown", ""), url)
        analysed == AnalyzeCompanyContent(inp.analysis)
        company == IF HasMarkdown(inp.scrape) THEN WithAnalysis(seed, analysed.analysis) ELSE seed
    IN  IF inp.search.kind = "raise" THEN ResearchFail(<<start>>, Error)
        ELSE IF ~HasData(inp.search) THEN ToolSkipped(loc, start)
        ELSE IF inp.scrape.kind = "raise" THEN ResearchFail(<<start>>, Error)
        ELSE IF HasMarkdown(inp.scrape) /\ analysed.kind = "raise"
             THEN ResearchFail(<<start>>, Error)
        ELSE Continue(<<start, [phase |-> "company_ready", company |-> CompanyDict(company)]>>,
                      "research_loop",
                      [loc EXCEPT !.i = loc.i + 1, !.companies = Append(loc.companies, company)])

\* _research_step after the loop
ResearchDone(loc) ==
    Return(<<[phase |-> "research_done", count |-> Len(loc.companies)]>>,
           [companies |-> loc.companies])

\* except branch of _analyze_step
AnalyzeFail(evs, e) ==
    Return(evs \o <<ErrorEvent("analysis failed: ", e)>>, [analysis |-> "Analysis failed"])

\* an except branch that reports the failure and leaves analysis alone
AnalyzeStepNoFallback(st, resp) ==
    LET start == [phase |-> "analysis_start"]
    IN  IF resp.kind = "raise"
        THEN Return(<<start, ErrorEvent("analysis failed: ", Error)>>, <<>>)
        ELSE Return(<<start, [phase |-> "analysis_done", analysis |-> resp.content]>>,
                    [analysis |-> resp.content])

\* an except branch that also announces the fallback text as the analysis
AnalyzeStepBoth(st, resp) ==
    LET start == [phase |-> "analysis_start"]
        content == IF resp.kind = "raise" THEN "Analysis failed" ELSE resp.content
        done == [phase |-> "analysis_done", analysis |-> content]
    IN  IF resp.kind = "raise"
        THEN AnalyzeFail(<<start, done>>, Error)
        ELSE Return(<<start, done>>, [analysis |-> content])

\* _analyze_step
AnalyzeStep(st, resp) ==
    LET start == [phase |-> "analysis_start"]
    IN  IF resp.kind = "raise"
        THEN AnalyzeFail(<<start>>, Error)
        ELSE Return(<<start, [phase |-> "analysis_done", analysis |-> resp.content]>>,
                    [analysis |-> resp.content])

-----------------------------------------------------------------------------
(* Inputs of the steps *)

\* the responses one iteration of the research loop consumes: the scrape is
\* called only on a search hit, the analysis only on scraped markdown
ToolInputs ==
    {inp \in [search : SearchResponses({FullResult}, ToolNumResults),
              scrape : ScrapeResponses \cup {Unused},
              analysis : AnalysisResponses \cup {Unused}] :
        /\ (inp.scrape # Unused) <=> HasData(inp.search)
        /\ (inp.analysis # Unused) <=> (inp.scrape # Unused /\ HasMarkdown(inp.scrape))}

\* an environment: for each step, the set its input is drawn from
\* (run(query, progress_callback=on_progress) is how app.py calls run)
Env ==
    [run            |-> [query : Queries, cb : {"on_progress"}],
     extract_search |-> SearchResponses(Results, ExtractNumResults),
     extract_scrape |-> ScrapeResponses,
     extract_llm    |-> ExtractLLMResponses,
     fallback       |-> SearchResponses(Results, FallbackNumResults) \cup {Unused},
     tool           |-> ToolInputs,
     recommend      |-> RecommendLLMResponses,
     none           |-> {Unused}]

\* the same calls, each still answered by a result, an empty result or an
\* exception, with one kind of search result, one kind of empty answer and
\* no blank line among the lines of the extraction LLM
PlainEnv ==
    [Env EXCEPT !.extract_search = SearchResponses({FullResult}, ExtractNumResults),
                !.extract_llm = {resp \in ExtractLLMResponses :
                                    resp.kind = "ok" =>
                                        \A i \in 1..Len(resp.lines) : Strip(resp.lines[i]) # <<>>},
                !.fallback = SearchResponses({FullResult}, FallbackNumResults) \cup {Unused},
                !.tool = {inp \in ToolInputs :
                             inp.search.kind # "none" /\ inp.scrape.kind # "none"}]

-----------------------------------------------------------------------------
(* Actions *)

\* the first call a step makes to a service, as recorded in `last`
NoCall == [fn |-> "none"]
SearchCall(query, num_results) ==
    [fn |-> "search_companies", query |-> query, num_results |-> num_results]

\* what a callback does with an event: "raising_cb" raises on every event
CallbackRaises(cb, ev) == cb = "raising_cb"

\* _emit without its try/except: the callback's exception leaves _emit
EmitCallUnguarded(cb, ev) ==
    IF cb = None THEN "skipped"
    ELSE IF CallbackRaises(cb, ev) THEN "raise" ELSE "called"

\* _emit(event): the callback is called when there is one, and an exception
\* it raises is caught and printed
EmitCall(cb, ev) ==
    IF cb = None THEN "skipped"
    ELSE IF CallbackRaises(cb, ev) THEN "printed" ELSE "called"

\* the first of evs whose _emit lets an exception out (0: none does)
FirstRaise(cb, evs) ==
    LET S == {i \in 1..Len(evs) : EmitCall(cb, evs[i]) = "raise"}
    IN  IF S = {} THEN 0 ELSE CHOOSE i \in S : \A j \in S : i <= j

\* the except branch of a node
Handler(node, evs, e) ==
    CASE node = "extract_tools" -> ExtractFail(evs, e)
      [] node = "research" -> ResearchFail(evs, e)
      [] node = "analyze" -> AnalyzeFail(evs, e)

\* every _emit of a node is inside the node's try: an exception out of _emit
\* would enter the except branch, and one out of the except branch's own _emit
\* would leave the node
Caught(node, out, cb) ==
    LET k == FirstRaise(cb, out.evs)
        evs == SubSeq(out.evs, 1, k)
        h == Handler(node, evs, CallbackError)
    IN  IF k = 0 THEN out
        ELSE IF out.evs[k].phase = "error" THEN Raise(evs)
        ELSE IF EmitCall(cb, h.evs[Len(h.evs)]) = "raise" THEN Raise(h.evs)
        ELSE h

\* _emit, once per event, with cb the callback stored on the instance: cb
\* receives the event (nobody, when cb is None)
EmitTo(cb, lg, r, evs) ==
    lg \o [i \in 1..Len(evs) |-> [run |-> r, to |-> cb, ev |-> evs[i]]]

Emit(lg, r, evs) == EmitTo(callback, lg, r, evs)

\* an except clause that re-raises without reporting
RaisedSilently(r, cb, evs, e) ==
    /\ log' = EmitTo(cb, log, r, evs)
    /\ pc' = [pc EXCEPT ![r] = "raised"]
    /\ callback' = None

\* the except and finally clauses of run: the error event, the exception
\* handed to the caller, the callback cleared
Raised(r, cb, evs, e) ==
    /\ log' = EmitTo(cb, log, r, evs \o <<ErrorEvent("", e)>>)
    /\ pc' = [pc EXCEPT ![r] = "raised"]
    /\ callback' = None

\* the script of run r after a step that consumed inp (written only when rec)
Written(r, inp, rec) == IF rec THEN [script EXCEPT ![r] = Append(@, inp)] ELSE script

\* a step of a node: its events are emitted; on RETURN the driver merges the
\* update into the state and follows the node's edge
Apply(r, node_out, inp, call, rec) ==
    LET out == Caught(NodeOf(pc[r]), node_out, callback)
        nxt == Edge[NodeOf(pc[r])]
    IN  /\ CASE out.goto = "RAISE" ->
                  /\ Raised(r, callback, out.evs, CallbackError)
                  /\ UNCHANGED <<state, visited>>
              [] out.goto = "RETURN" ->
                  /\ log' = Emit(log, r, out.evs)
                  /\ state' = [state EXCEPT ![r] = Merge(@, out.update)]
                  /\ pc' = [pc EXCEPT ![r] = IF nxt = "END" THEN "finalize" ELSE nxt]
                  /\ visited' = [visited EXCEPT ![r] = IF nxt = "END" THEN @ ELSE Append(@, nxt)]
                  /\ callback' = callback
              [] OTHER ->
                  /\ log' = Emit(log, r, out.evs)
                  /\ pc' = [pc EXCEPT ![r] = out.goto]
                  /\ callback' = callback
                  /\ UNCHANGED <<state, visited>>
        /\ local' = [local EXCEPT ![r] = out.local]
        /\ last' = [run |-> r, at |-> pc[r], inp |-> inp, call |-> call]
        /\ script' = Written(r, inp, rec)
        /\ UNCHANGED returned

\* a run that leaves a callback already stored in place
RunStartKeepingStored(r, inputs, rec) ==
    /\ pc[r] = "idle"
    /\ \E inp \in inputs :
        LET cb == IF callback # None THEN callback ELSE inp.cb
        IN  /\ IF ValidQuery(inp.query)
               THEN /\ callback' = cb
                    /\ state' = [state EXCEPT ![r] = InitialState(inp.query)]
                    /\ pc' = [pc EXCEPT ![r] = EntryPoint]
                    /\ visited' = [visited EXCEPT ![r] = <<EntryPoint>>]
                    /\ log' = log
               ELSE /\ Raised(r, cb, <<>>, ValidationError)
                    /\ UNCHANGED <<state, visited>>
            /\ last' = [run |-> r, at |-> "idle", inp |-> inp, call |-> NoCall]
            /\ script' = Written(r, inp, rec)
    /\ UNCHANGED <<local, returned>>

\* run, up to the invocation of the graph
RunStart(r, inputs, rec) ==
    /\ pc[r] = "idle"
    /\ \E inp \in inputs :
        LET cb == IF inp.cb # None THEN inp.cb ELSE callback
        IN  /\ IF ValidQuery(inp.query)
               THEN /\ callback' = cb
                    /\ state' = [state EXCEPT ![r] = InitialState(inp.query)]
                    /\ pc' = [pc EXCEPT ![r] = EntryPoint]
                    /\ visited' = [visited EXCEPT ![r] = <<EntryPoint>>]
                    /\ log' = log
               ELSE /\ Raised(r, cb, <<>>, ValidationError)
                    /\ UNCHANGED <<state, visited>>
            /\ last' = [run |-> r, at |-> "idle", inp |-> inp, call |-> NoCall]
            /\ script' = Written(r, inp, rec)
    /\ UNCHANGED <<local, returned>>

DoExtractSearch(r, inputs, rec) ==
    /\ pc[r] = "extract_tools"
    /\ \E sr \in inputs :
        Apply(r, ExtractToolsSearch(state[r], sr), sr,
              SearchCall(ArticleQuery(state[r].query), ExtractNumResults), rec)

DoExtractScrape(r, inputs, rec) ==
    /\ pc[r] = "extract_scrape"
    /\ \E sc \in inputs :
        Apply(r, ExtractToolsScrape(local[r], sc), sc,
              [fn |-> "scrape_company_pages",
               url |-> Get(local[r].search_results.data[local[r].i], "url", "")], rec)

DoExtractLLM(r, inputs, rec) ==
    /\ pc[r] = "extract_llm"
    /\ \E resp \in inputs :
        Apply(r, ExtractToolsLLM(local[r], resp), resp,
              [fn |-> "llm.invoke", query |-> state[r].query,
               content |-> local[r].all_content], rec)

DoResearchBegin(r, inputs, rec) ==
    /\ pc[r] = "research"
    /\ \E sr \in inputs :
        /\ (sr = Unused) <=> (state[r].extracted_tools # <<>>)
        /\ Apply(r, ResearchBegin(state[r], sr), sr,
                 IF sr = Unused THEN NoCall
                 ELSE SearchCall(state[r].query, FallbackNumResults), rec)

DoResearchTool(r, inputs, rec) ==
    /\ pc[r] = "research_loop"
    /\ local[r].i <= Len(local[r].tool_names)
    /\ \E inp \in inputs :
        Apply(r, ResearchTool(local[r], inp), inp,
              SearchCall(ToolQuery(local[r].tool_names[local[r].i]), ToolNumResults), rec)

DoResearchDone(r, inputs, rec) ==
    /\ pc[r] = "research_loop"
    /\ local[r].i > Len(local[r].tool_names)
    /\ \E u \in inputs : Apply(r, ResearchDone(local[r]), u, NoCall, rec)

DoAnalyze(r, inputs, rec) ==
    /\ pc[r] = "analyze"
    /\ \E resp \in inputs :
        Apply(r, AnalyzeStep(state[r], resp), resp,
              [fn |-> "llm.invoke", query |-> state[r].query,
               content |-> state[r].companies], rec)

\* a final event that carries the state the run began with
FinalEventInitial(final_state) ==
    [phase |-> "final", final_state |-> InitialState(final_state.query)]

\* what run does once the graph has returned: the final event, the return
\* value and the finally clause
FinalEvent(final_state) == [phase |-> "final", final_state |-> final_state]

\* a run without its finally clause
RunFinishKeeping(r, inputs, rec) ==
    /\ pc[r] = "finalize"
    /\ \E u \in inputs :
        /\ last' = [run |-> r, at |-> "finalize", inp |-> u, call |-> NoCall]
        /\ script' = Written(r, u, rec)
    /\ log' = Emit(log, r, <<FinalEvent(state[r])>>)
    /\ returned' = [returned EXCEPT ![r] = state[r]]
    /\ pc' = [pc EXCEPT ![r] = "returned"]
    /\ UNCHANGED <<state, local, visited, callback>>

RunFinish(r, inputs, rec) ==
    /\ pc[r] = "finalize"
    /\ \E u \in inputs :
        /\ last' = [run |-> r, at |-> "finalize", inp |-> u, call |-> NoCall]
        /\ script' = Written(r, u, rec)
    /\ log' = Emit(log, r, <<FinalEvent(state[r])>>)
    /\ returned' = [returned EXCEPT ![r] = state[r]]
    /\ callback' = None
    /\ pc' = [pc EXCEPT ![r] = "returned"]
    /\ UNCHANGED <<state, local, visited>>

\* a failure of the driver itself: workflow.invoke raises between two nodes,
\* or ResearchState(**final_state) raises after the final event
RunRaise(r, inputs, rec) ==
    /\ pc[r] \in {"extract_tools", "research", "analyze", "finalize"}
    /\ \E d \in inputs :
        /\ d.at = "build" => pc[r] = "finalize"
        /\ Raised(r, callback,
                  IF d.at = "build" THEN <<FinalEvent(state[r])>> ELSE <<>>, DriverError)
        /\ last' = [run |-> r, at |-> pc[r], inp |-> d, call |-> NoCall]
        /\ script' = Written(r, d, rec)
    /\ UNCHANGED <<state, local, visited, returned>>

-----------------------------------------------------------------------------
(* One run on an instance built as app.py builds it: Workflow() *)

NoState == InitialState(None)

\* the state after Workflow(progress_callback=cb), for cb drawn from ctor_cbs
InitWith(ctor_cbs) ==
    /\ pc = [r \in Runs |-> "idle"]
    /\ state = [r \in Runs |-> NoState]
    /\ local = [r \in Runs |-> NoLocal]
    /\ callback \in ctor_cbs
    /\ log = <<>>
    /\ returned = [r \in Runs |-> NoState]
    /\ visited = [r \in Runs |-> <<>>]
    /\ last = [run |-> 0, at |-> "init", inp |-> Unused, call |-> NoCall]
    /\ script = [r \in Runs |-> <<>>]

Init == InitWith({None})

\* a step of run r, its input drawn from the environment env
Step(r, env, rec) ==
    \/ RunStart(r, env.run, rec)
    \/ DoExtractSearch(r, env.extract_search, rec)
    \/ DoExtractScrape(r, env.extract_scrape, rec)
    \/ DoExtractLLM(r, env.extract_llm, rec)
    \/ DoResearchBegin(r, env.fallback, rec)
    \/ DoResearchTool(r, env.tool, rec)
    \/ DoResearchDone(r, env.none, rec)
    \/ DoAnalyze(r, env.recommend, rec)
    \/ RunFinish(r, env.none, rec)

Next == Step(1, Env, FALSE)

Spec == Init /\ [][Next]_vars

\* run is a blocking call: a run that has started keeps executing
PlainNext == Step(1, PlainEnv, FALSE)

FairSpec == Init /\ [][PlainNext]_vars /\ WF_vars(PlainNext)

-----------------------------------------------------------------------------
(* One run by any caller: the instance is built with or without a callback,   *)
(* run is called with or without one and with a query that may not be a       *)
(* string, and the graph driver and the state model may fail.                 *)

DriverFailures == {[kind |-> "driver", at |-> "invoke"], [kind |-> "driver", at |-> "build"]}

DriverEnv ==
    [PlainEnv EXCEPT !.run = [query : Queries \cup {None}, cb : {None, "on_progress"}]]

InitDriver == InitWith({None, "ctor_cb"})

NextDriver == Step(1, DriverEnv, FALSE) \/ RunRaise(1, DriverFailures, FALSE)

SpecDriver == InitDriver /\ [][NextDriver]_vars

-----------------------------------------------------------------------------
(* One run whose arguments and responses are recorded in script[1], with      *)
(* several queries and several tool names.                                    *)

\* the extraction LLM answers with no line, or with 1 to MaxLines names
NameLines == {<<"A">>, <<" ", "C">>}
NamedLLMResponses ==
    {[kind |-> "raise"], [kind |-> "ok", lines |-> <<>>]}
        \cup {[kind |-> "ok", lines |-> l] : l \in [1..MaxLines -> NameLines]}
        \cup {[kind |-> "ok", lines |-> l] : l \in [1..2 -> NameLines]}

RecordedEnv ==
    [run            |-> [query : {"q", "q2"}, cb : {"on_progress"}],
     extract_search |-> SearchResponses({BareResult}, 1),
     extract_scrape |-> {sc \in ScrapeResponses : sc.kind = "ok"},
     extract_llm    |-> NamedLLMResponses,
     fallback       |-> {sr \in SearchResponses(Results, FallbackNumResults) :
                            sr.kind = "ok" => Len(sr.data) \in {0, 3}} \cup {Unused},
     tool           |-> {inp \in ToolInputs :
                            /\ inp.search.kind # "none"
                            /\ inp.scrape.kind \in {"unused", "ok"}
                            /\ inp.analysis.kind \in {"unused", "ok"}},
     recommend      |-> RecommendLLMResponses,
     none           |-> {Unused}]

NextRecorded == Step(1, RecordedEnv, TRUE)

SpecRecorded == Init /\ [][NextRecorded]_vars

-----------------------------------------------------------------------------
(* Two successive runs on one instance, the second given the same arguments   *)
(* and the same responses of the services as the first.  The instance is      *)
(* built with or without a callback, and run is called with or without one.   *)

RepeatEnv ==
    [run            |-> [query : Queries, cb : {None, "on_progress"}],
     extract_search |-> SearchResponses({BareResult}, 1),
     extract_scrape |-> {sc \in ScrapeResponses : sc.kind \in {"raise", "ok"}},
     extract_llm    |-> {resp \in ExtractLLMResponses : resp.kind = "ok" => Len(resp.lines) <= 1},
     fallback       |-> SearchResponses({FullResult}, 1) \cup {Unused},
     tool           |-> {inp \in ToolInputs : inp.search.kind # "none" /\ inp.scrape.kind # "none"},
     recommend      |-> RecommendLLMResponses,
     none           |-> {Unused}]

InitRepeat == InitWith({None, "ctor_cb"})

\* the environment of the second run: nothing before the first run has
\* returned, then at each step the response the first run got at that step
ReplayEnv ==
    LET k == Len(script[2]) + 1
        scripted == IF pc[1] = "returned" /\ k <= Len(script[1]) THEN {script[1][k]} ELSE {}
    IN  [f \in DOMAIN RepeatEnv |-> RepeatEnv[f] \cap scripted]

FirstRun == Step(1, RepeatEnv, TRUE)

SecondRun == Step(2, ReplayEnv, TRUE)

NextRepeat == FirstRun \/ SecondRun

SpecRepeat == InitRepeat /\ [][NextRepeat]_vars

-----------------------------------------------------------------------------
(* Two successive runs on one instance built without a callback: the first    *)
(* is given a callback that returns normally, the second a callback that      *)
(* raises on every event, the same query and the same responses.              *)

QuietEnv == [RepeatEnv EXCEPT !.run = [query : Queries, cb : {"on_progress"}]]

RaisingReplayEnv ==
    [ReplayEnv EXCEPT !.run = IF pc[1] = "returned" /\ script[2] = <<>>
                              THEN [query : {script[1][1].query}, cb : {"raising_cb"}]
                              ELSE {}]

QuietRun == Step(1, QuietEnv, TRUE)

RaisingRun == Step(2, RaisingReplayEnv, TRUE)

NextCallback == QuietRun \/ RaisingRun

SpecCallback == Init /\ [][NextCallback]_vars

-----------------------------------------------------------------------------
(* Two calls of run that interleave on one instance (two threads): the first  *)
(* is given the callback "cb1"; the second is made, with the callback "cb2",   *)
(* while the first is executing.  A step is what a run does up to and         *)
(* including one call of a service.                                           *)

\* every service answers; the extraction search may come back empty
AnsweringEnv(cbs) ==
    [run            |-> [query : Queries, cb : cbs],
     extract_search |-> {sr \in SearchResponses({BareResult}, 1) : sr.kind = "ok"},
     extract_scrape |-> {[kind |-> "ok", markdown |-> <<"p1">>]},
     extract_llm    |-> {[kind |-> "ok", lines |-> <<<<"A">>>>]},
     fallback       |-> {Unused},
     tool           |-> {inp \in ToolInputs :
                            HasData(inp.search) /\ inp.analysis.kind = "ok"},
     recommend      |-> {resp \in RecommendLLMResponses : resp.kind = "ok"},
     none           |-> {Unused}]

Executing(r) == pc[r] \notin {"idle", "returned", "raised"}

OverlappingEnv ==
    [AnsweringEnv({"cb2"}) EXCEPT
        !.run = IF Executing(1) THEN [query : Queries, cb : {"cb2"}] ELSE {}]

FirstCall == Step(1, AnsweringEnv({"cb1"}), FALSE)

SecondCall == Step(2, OverlappingEnv, FALSE)

NextInterleaved == FirstCall \/ SecondCall

SpecInterleaved == Init /\ [][NextInterleaved]_vars

-----------------------------------------------------------------------------
(* Reading the log *)

\* the events run r passed to _emit, in order
Events(r) ==
    LET mine(e) == e.run = r
        l == SelectSeq(log, mine)
    IN  [i \in 1..Len(l) |-> l[i].ev]

\* the events of run r a callback received, in order
Delivered(r) ==
    LET got(e) == e.run = r /\ e.to # None
        l == SelectSeq(log, got)
    IN  [i \in 1..Len(l) |-> l[i].ev]

\* the positions of the events of one phase
At(r, phase) == {i \in 1..Len(Events(r)) : Events(r)[i].phase = phase}

\* what the step just taken appended to the log
NewEvents == [i \in 1..(Len(log') - Len(log)) |-> log'[Len(log) + i].ev]

-----------------------------------------------------------------------------
(* C1 *)

\* C1: a call to run terminates, and the state it returns has an analysis
\* that is a string: the LLM's recommendation or "Analysis failed".
C1_RunTerminatesWithAnalysis ==
    (pc[1] # "idle") ~>
        (/\ pc[1] = "returned"
         /\ returned[1].analysis
                \in {resp.content : resp \in {x \in RecommendLLMResponses : x.kind = "ok"}}
                        \cup {"Analysis failed"})

\* a run returned "Analysis failed" after the extract and research stages failed too
C1_Witness ==
    /\ pc[1] = "returned"
    /\ returned[1].analysis = "Analysis failed"
    /\ Cardinality(At(1, "error")) = 3

-----------------------------------------------------------------------------
(* C2 *)

\* the extraction LLM is about to be called and the search for the derived
\* query had returned no results
AfterEmptySearch ==
    /\ pc[1] = "extract_llm"
    /\ ~HasData(local[1].search_results)
    /\ last'.run = 1

\* the research node, entered with no extracted tools, takes its fallback
\* path: research_fallback is the first event and the original query is searched
ResearchFallsBack ==
    (pc[1] = "research" /\ state[1].extracted_tools = <<>> /\ last'.run = 1)
        => /\ NewEvents # <<>>
           /\ NewEvents[1] = [phase |-> "research_fallback", query |-> state[1].query]
           /\ last'.call = SearchCall(state[1].query, 4)
           /\ last'.inp.kind # "raise" => local'[1].tool_names = Titles(last'.inp)

\* C2 as stated: whenever the search for the derived extraction query returns
\* no results, extracted_tools is empty and the research stage falls back.
C2_Original ==
    [][/\ AfterEmptySearch => (state'[1].extracted_tools = <<>> /\ pc'[1] = "research")
       /\ ResearchFallsBack]_vars

\* C2, amended: when the search for the derived extraction query returns no
\* results, the LLM is still called; if it raises or its response holds no
\* non-blank line, extracted_tools is empty and the research stage falls back
\* (emits research_fallback and searches the original query).
C2_EmptyExtractionFallsBack ==
    [][/\ (/\ AfterEmptySearch
           /\ \/ last'.inp.kind = "raise"
              \/ \A i \in 1..Len(last'.inp.lines) : \A j \in 1..Len(last'.inp.lines[i]) :
                     last'.inp.lines[i][j] = " ")
          => (state'[1].extracted_tools = <<>> /\ pc'[1] = "research")
       /\ ResearchFallsBack]_vars

\* the search was empty, the LLM answered with blank lines only, and the
\* research stage went on with the titles of the fallback search
C2_Witness ==
    /\ pc[1] = "research_loop"
    /\ state[1].extracted_tools = <<>>
    /\ Len(local[1].tool_names) = 2
    /\ \E i \in At(1, "extracted_tools") : Events(1)[i].tools = <<>>
    /\ At(1, "research_fallback") # {}

-----------------------------------------------------------------------------
(* C3 *)

-----------------------------------------------------------------------------
(* C4 *)

\* the step just taken is one iteration of the research loop of run 1
ToolStep ==
    /\ pc[1] = "research_loop"
    /\ local[1].i <= Len(local[1].tool_names)
    /\ last'.run = 1

\* the iteration's search had a hit and the scrape of its url returned
\* nothing usable (and did not raise)
ScrapeFailed ==
    /\ ToolStep
    /\ HasData(last'.inp.search)
    /\ last'.inp.scrape.kind # "raise"
    /\ ~HasMarkdown(last'.inp.scrape)

\* the record the iteration appended
Appended == local'[1].companies[Len(local'[1].companies)]

AppendedOne ==
    /\ Len(local'[1].companies) = Len(local[1].companies) + 1
    /\ SubSeq(local'[1].companies, 1, Len(local[1].companies)) = local[1].companies

\* C4 as stated: after a failed scrape the record is appended and carries
\* pricing_model "Unknown", description "Failed" and an empty tech_stack.
C4_Original ==
    [][ScrapeFailed =>
        /\ AppendedOne
        /\ Appended.pricing_model = "Unknown"
        /\ Appended.description = "Failed"
        /\ Appended.tech_stack = <<>>]_vars

\* C4, amended: after a failed scrape the record is still appended and
\* announced by company_ready, but the analysis is never called, so it carries
\* the values it was built with: the search result's markdown as description,
\* its url as website, an empty tech_stack, and pricing_model at its default.
C4_ScrapeFailureKeepsSeedRecord ==
    [][ScrapeFailed =>
        /\ AppendedOne
        /\ Appended.name = local[1].tool_names[local[1].i]
        /\ Appended.description = Get(last'.inp.search.data[1], "markdown", "")
        /\ Appended.website = Get(last'.inp.search.data[1], "url", "")
        /\ Appended.pricing_model = CompanyDefaults.pricing_model
        /\ Appended.pricing_model # "Unknown"
        /\ Appended.tech_stack = <<>>
        /\ NewEvents = <<[phase |-> "research_tool_start", tool |-> Appended.name],
                         [phase |-> "company_ready", company |-> Appended]>>
        /\ pc'[1] = "research_loop"]_vars

\* a record whose scrape failed is in the list: it still has the search
\* snippet as description and no pricing model
C4_Witness ==
    /\ pc[1] = "research_loop"
    /\ last.at = "research_loop"
    /\ last.inp # Unused
    /\ HasData(last.inp.search)
    /\ last.inp.scrape.kind = "none"
    /\ Len(local[1].companies) = 2
    /\ local[1].companies[2].description = "snippet"
    /\ local[1].companies[2].pricing_model = None

-----------------------------------------------------------------------------
(* C5 *)

\* the companies the company_ready events of run r carried, in order
ReadyCompanies(r) ==
    LET ready(e) == e.phase = "company_ready"
        l == SelectSeq(Events(r), ready)
    IN  [i \in 1..Len(l) |-> l[i].company]

ReadyBeforeDone ==
    \A i \in At(1, "company_ready") : \A j \in At(1, "research_done") : i < j

\* C5 as stated: in every run the companies of the company_ready events are
\* the companies of the final state, in order, and precede research_done.
C5_Original ==
    pc[1] = "returned" =>
        /\ ReadyCompanies(1) = returned[1].companies
        /\ ReadyBeforeDone

\* C5, amended: in every run whose research stage completes (it emits
\* research_done, no exception having escaped its loop), the companies of the
\* company_ready events are the companies of the state, one event per record
\* and in the same order, and all of them precede research_done; while the
\* loop runs they are the records built so far.
C5_ReadyEventsMatchCompanies ==
    /\ pc[1] = "research_loop" => ReadyCompanies(1) = local[1].companies
    /\ At(1, "research_done") # {} =>
        /\ ReadyCompanies(1) = state[1].companies
        /\ Cardinality(At(1, "company_ready")) = Len(state[1].companies)
        /\ ReadyBeforeDone
        /\ pc[1] = "returned" => ReadyCompanies(1) = returned[1].companies

\* a run returned three different records (seed, analysed, sentinel), each
\* announced by its company_ready
C5_Witness ==
    /\ pc[1] = "returned"
    /\ At(1, "research_done") # {}
    /\ Len(returned[1].companies) = 3
    /\ Cardinality({returned[1].companies[i].description : i \in 1..3}) = 3

-----------------------------------------------------------------------------
(* C6 *)

\* C6: whatever failed inside the stages, events keep being emitted after
\* each error event and the run ends with exactly one final event, emitted
\* last, that carries the state run returns.
C6_FinalAfterErrors ==
    LET evs == Events(1)
    IN  /\ pc[1] # "returned" => At(1, "final") = {}
        /\ pc[1] = "returned" =>
            /\ At(1, "final") = {Len(evs)}
            /\ evs[Len(evs)] = [phase |-> "final", final_state |-> returned[1]]
            /\ \A i \in At(1, "error") : \E j \in 1..Len(evs) : j > i

\* a run returned after all three stages had reported an error
C6_Witness ==
    /\ pc[1] = "returned"
    /\ Cardinality(At(1, "error")) = 3
    /\ At(1, "final") # {}

-----------------------------------------------------------------------------
(* C7 *)

\* the stage an event belongs to: 1 extract, 2 research, 3 analyze, 4 driver
StageOf(ev) ==
    CASE ev.phase \in {"extract_tools_start", "extracted_tools"} -> 1
      [] ev.phase \in {"research_fallback", "research_start", "research_tool_start",
                       "company_ready", "research_done"} -> 2
      [] ev.phase \in {"analysis_start", "analysis_done"} -> 3
      [] ev.phase = "error" ->
            (CASE ev.error[1] = "extract_tools failed: " -> 1
               [] ev.error[1] = "research failed: " -> 2
               [] ev.error[1] = "analysis failed: " -> 3
               [] OTHER -> 4)
      [] OTHER -> 4

Chain == <<"extract_tools", "research", "analyze">>

\* C7: every run executes extract_tools, research, analyze once each, in that
\* order, and the events of a stage all precede those of the next stage.
C7_LinearChain ==
    LET evs == Events(1)
    IN  /\ Len(visited[1]) <= 3
        /\ visited[1] = SubSeq(Chain, 1, Len(visited[1]))
        /\ pc[1] \in {"finalize", "returned"} => visited[1] = Chain
        /\ pc[1] \notin {"idle", "finalize", "returned"} =>
               NodeOf(pc[1]) = visited[1][Len(visited[1])]
        /\ \A i, j \in 1..Len(evs) : i < j => StageOf(evs[i]) <= StageOf(evs[j])
        /\ \A p \in {"extract_tools_start", "research_start", "analysis_start"} :
               Cardinality(At(1, p)) <= 1
        /\ pc[1] = "returned" =>
               \A n \in 1..3 : \E i \in 1..Len(evs) : StageOf(evs[i]) = n

\* a run went through the three nodes and returned
C7_Witness ==
    /\ pc[1] = "returned"
    /\ visited[1] = Chain
    /\ At(1, "research_done") # {}
    /\ At(1, "analysis_done") # {}

-----------------------------------------------------------------------------
(* C8 *)

\* both runs were made with the same arguments and got the same responses
SameRunTwice ==
    /\ pc[1] = "returned"
    /\ pc[2] = "returned"
    /\ script[2] = script[1]

\* C8: given identical responses of the services, two successive runs with
\* the same query on one instance return equal states and deliver the same
\* sequence of progress events.
C8_Original ==
    SameRunTwice =>
        /\ returned[2] = returned[1]
        /\ Delivered(2) = Delivered(1)

-----------------------------------------------------------------------------
(* C9 *)

\* C9: a tool whose "<tool name> official site" search returns no results
\* gets no record and no company_ready, nothing is raised, and the loop goes
\* on with the next tool name.
C9_NoResultToolSkipped ==
    [][(/\ ToolStep
        /\ last'.inp.search.kind # "raise"
        /\ ~HasData(last'.inp.search))
       => /\ last'.call = SearchCall(local[1].tool_names[local[1].i] \o <<" official site">>, 1)
          /\ local'[1].companies = local[1].companies
          /\ NewEvents = <<[phase |-> "research_tool_start",
                            tool |-> local[1].tool_names[local[1].i]]>>
          /\ pc'[1] = "research_loop"
          /\ local'[1].i = local[1].i + 1
          /\ local'[1].tool_names = local[1].tool_names]_vars

\* the second of three tools was skipped: one record before it, one after it
C9_Witness ==
    /\ pc[1] = "returned"
    /\ Len(returned[1].companies) = 2
    /\ Cardinality(At(1, "research_tool_start")) = 3
    /\ \E i \in At(1, "research_tool_start") :
           /\ i + 1 \in At(1, "research_tool_start")
           /\ i - 1 \in At(1, "company_ready")
    /\ At(1, "research_done") # {}

-----------------------------------------------------------------------------
(* C10 *)

\* C10: when the analysis of one tool raises, the exception stays in the
\* helper: the tool's record gets the sentinel values, no error event ends
\* the stage, and the loop goes on with the next tool name.
C10_AnalysisFailureIsolated ==
    [][(/\ ToolStep
        /\ last'.inp.analysis.kind = "raise")
       => /\ AppendedOne
          /\ Appended.name = local[1].tool_names[local[1].i]
          /\ Appended.website = Get(last'.inp.search.data[1], "url", "")
          /\ Appended.pricing_model = "Unknown"
          /\ Appended.description = "Failed"
          /\ Appended.is_open_source = None
          /\ Appended.api_available = None
          /\ Appended.tech_stack = <<>>
          /\ Appended.language_support = <<>>
          /\ Appended.integration_capabilities = <<>>
          /\ NewEvents = <<[phase |-> "research_tool_start", tool |-> Appended.name],
                           [phase |-> "company_ready", company |-> Appended]>>
          /\ pc'[1] = "research_loop"
          /\ local'[1].i = local[1].i + 1
          /\ local'[1].tool_names = local[1].tool_names]_vars

\* the analysis of the first tool failed and the second tool was analysed
C10_Witness ==
    /\ pc[1] = "returned"
    /\ Len(returned[1].companies) = 2
    /\ returned[1].companies[1].description = "Failed"
    /\ returned[1].companies[2].description = "analysed"
    /\ Cardinality(At(1, "error")) = 0

-----------------------------------------------------------------------------
(* C11 *)

\* the step just taken is a step of the extract-tools node of run 1 in which
\* the service called (search, scrape or LLM) raised
ExtractRaised ==
    /\ NodeOf(pc[1]) = "extract_tools"
    /\ last'.run = 1
    /\ last'.inp.kind = "raise"

ExtractError == ErrorEvent("extract_tools failed: ", Error)

ExtractErrorSeen == \E i \in At(1, "error") : Events(1)[i] = ExtractError

\* the run has left the extract-tools stage without an extracted_tools event
\* and the research stage takes over with no tool names
AfterExtractError ==
    /\ At(1, "extracted_tools") = {}
    /\ state[1].extracted_tools = <<>>
    /\ pc[1] \notin {"idle", "extract_tools", "extract_scrape", "extract_llm", "raised"}
    /\ pc[1] # "research" => At(1, "research_fallback") # {}

\* C11: an exception raised by the search, a scrape or the LLM call of the
\* extract-tools stage is caught there: the stage's last event is an error
\* event, extracted_tools is the empty list, the run has no extracted_tools
\* event, and the research stage runs next.
C11_ExtractFailureCaught ==
    /\ [][ExtractRaised =>
            /\ NewEvents # <<>>
            /\ NewEvents[Len(NewEvents)] = ExtractError
            /\ state'[1].extracted_tools = <<>>
            /\ state'[1].companies = state[1].companies
            /\ pc'[1] = "research"
            /\ visited'[1] = <<"extract_tools", "research">>]_vars
    /\ [](ExtractErrorSeen => AfterExtractError)

\* a scrape of the extract-tools stage (of a result without url) raised and
\* the research stage is about to run
C11_Witness ==
    /\ pc[1] = "research"
    /\ last.at = "extract_scrape"
    /\ last.inp.kind = "raise"
    /\ Events(1) = <<[phase |-> "extract_tools_start", query |-> "q"], ExtractError>>
    /\ last.call = [fn |-> "scrape_company_pages", url |-> ""]

-----------------------------------------------------------------------------
(* C12 *)

AnalysisErrors ==
    {i \in At(1, "error") : Events(1)[i] = ErrorEvent("analysis failed: ", Error)}

\* C12: the analyze stage runs in every run and never raises: the run emits
\* analysis_start exactly once, directly followed by exactly one of
\* analysis_done, whose text is the analysis of the terminal state, or an
\* error event, in which case the analysis is "Analysis failed".
C12_AnalyzeAlwaysConcludes ==
    LET evs == Events(1)
        starts == At(1, "analysis_start")
        dones == At(1, "analysis_done")
    IN  /\ pc[1] # "raised"
        /\ pc[1] \notin {"finalize", "returned"} =>
               starts = {} /\ dones = {} /\ AnalysisErrors = {}
        /\ pc[1] \in {"finalize", "returned"} =>
               /\ Cardinality(starts) = 1
               /\ Cardinality(dones \cup AnalysisErrors) = 1
               /\ \A i \in starts : dones \cup AnalysisErrors = {i + 1}
               /\ \A i \in dones : evs[i].analysis = state[1].analysis
               /\ AnalysisErrors # {} => state[1].analysis = "Analysis failed"
               /\ dones # {} => state[1].analysis # "Analysis failed"
        /\ pc[1] = "returned" => returned[1].analysis = state[1].analysis

\* the recommendation call failed in a run that had researched two companies
C12_Witness ==
    /\ pc[1] = "returned"
    /\ Len(returned[1].companies) = 2
    /\ AnalysisErrors # {}
    /\ At(1, "analysis_done") = {}
    /\ returned[1].analysis = "Analysis failed"

-----------------------------------------------------------------------------
(* C13 *)

\* the step just taken made run 1 raise to its caller
RunRaised == pc[1] # "raised" /\ pc'[1] = "raised"

\* the step just taken was a failure of the driver: the state could not be
\* constructed from the query, workflow.invoke failed, or the returned state
\* could not be built
DriverFailed ==
    \/ pc[1] = "idle" /\ ~ValidQuery(last'.inp.query)
    \/ pc[1] # "idle" /\ last'.inp \in DriverFailures

\* the step just taken called a service of a stage and the service raised
ServiceRaised ==
    /\ NodeOf(pc[1]) # "END"
    /\ last'.run = 1
    /\ last'.inp \notin DriverFailures
    /\ IF pc[1] = "research_loop"
       THEN \E f \in {"search", "scrape", "analysis"} :
                f \in DOMAIN last'.inp /\ last'.inp[f].kind = "raise"
       ELSE last'.inp.kind = "raise"

\* the callback in force while run 1 executes the step: the one given to run,
\* else the one already stored
CallbackInForce ==
    IF pc[1] = "idle" /\ last'.inp.cb # None THEN last'.inp.cb ELSE callback

\* C13: run raises to its caller only when the driver itself failed, never
\* because a search, scrape or LLM call of a stage raised; and when it raises,
\* the last thing it emitted, to the callback in force, is an error event.
C13_RaisesOnlyOnDriverFailure ==
    /\ [][/\ RunRaised => DriverFailed
          /\ ServiceRaised => pc'[1] \in {"research", "research_loop", "analyze", "finalize"}
          /\ RunRaised =>
                /\ Len(log') > Len(log)
                /\ log'[Len(log')] =
                       [run |-> 1, to |-> CallbackInForce, ev |-> ErrorEvent("", log'[Len(log')].ev.error[2])]
                /\ returned'[1] = NoState]_vars
    /\ [](pc[1] = "raised" => At(1, "error") # {} /\ Len(Events(1)) \in At(1, "error"))

\* the graph ran to its end after a failed recommendation call, the final
\* event was delivered, and building the returned state raised
C13_Witness ==
    /\ pc[1] = "raised"
    /\ last.inp \in DriverFailures
    /\ last.inp.at = "build"
    /\ Len(log) >= 3
    /\ log[Len(log)] = [run |-> 1, to |-> "on_progress", ev |-> ErrorEvent("", DriverError)]
    /\ log[Len(log) - 1].ev.phase = "final"
    /\ log[Len(log) - 2].ev = ErrorEvent("analysis failed: ", Error)

-----------------------------------------------------------------------------
(* C14 *)

\* C14: once a call to run has returned or raised, the callback stored on
\* the instance is None, whether it had been given to run or to the
\* constructor.
C14_CallbackClearedAfterRun ==
    /\ pc[1] \in {"returned", "raised"} => callback = None
    /\ pc[1] = "idle" => callback \in {None, "ctor_cb"}

\* a run on an instance built with a callback returned: its events had gone
\* to the constructor's callback, which is no longer stored
C14_Witness ==
    /\ pc[1] = "returned"
    /\ callback = None
    /\ Len(log) > 0
    /\ \A i \in 1..Len(log) : log[i].to = "ctor_cb"

-----------------------------------------------------------------------------
(* C15 *)

\* the responses the iterations of the research loop of run r consumed
ToolScript(r) ==
    LET tool(x) == "search" \in DOMAIN x
    IN  SelectSeq(script[r], tool)

\* those of the first n names whose search returned at least one result
RECURSIVE Hits(_, _, _)
Hits(names, inputs, n) ==
    IF n = 0 THEN <<>>
    ELSE IF inputs[n].search.kind = "ok" /\ Len(inputs[n].search.data) >= 1
         THEN Append(Hits(names, inputs, n - 1), names[n])
         ELSE Hits(names, inputs, n - 1)

NamesOf(companies) == [i \in 1..Len(companies) |-> companies[i].name]

\* the names the research stage is to attempt: the first 4 extracted names,
\* or the titles of the fallback search (sr: its response)
Attempted(extracted_tools, sr) ==
    IF extracted_tools # <<>>
    THEN [i \in 1..(IF Len(extracted_tools) < 4 THEN Len(extracted_tools) ELSE 4) |->
             extracted_tools[i]]
    ELSE IF "data" \notin DOMAIN sr THEN <<>>
    ELSE [i \in 1..Len(sr.data) |->
             IF "metadata" \in DOMAIN sr.data[i] THEN sr.data[i].metadata.title
             ELSE <<"Unknown">>]

\* C15: during the loop the records built so far are named, in order, after
\* the tool names attempted so far whose search had a result, so they are at
\* most as many as the names attempted; and when the research stage completes
\* (research_done), the names of companies are exactly the attempted names
\* (first 4 extracted names, or fallback titles) that had a search result.
C15_CompaniesAreHitsInOrder ==
    LET inputs == ToolScript(1)
        n == Len(inputs)
    IN  /\ (pc[1] = "research_loop" /\ last.at = "research") =>
               local[1].tool_names = Attempted(state[1].extracted_tools, last.inp)
        /\ pc[1] = "research_loop" =>
               /\ n = local[1].i - 1
               /\ n <= Len(local[1].tool_names)
               /\ Len(local[1].companies) <= n
               /\ NamesOf(local[1].companies) = Hits(local[1].tool_names, inputs, n)
        /\ At(1, "research_done") # {} =>
               \A k \in At(1, "research_start") :
                   /\ n = Len(Events(1)[k].tools)
                   /\ NamesOf(state[1].companies) = Hits(Events(1)[k].tools, inputs, n)
                   /\ state[1].extracted_tools # <<>> =>
                          Events(1)[k].tools = Attempted(state[1].extracted_tools, Unused)

\* five names were extracted; of the first four, the second and the fourth
\* had no search result
C15_Witness ==
    /\ pc[1] = "returned"
    /\ returned[1].extracted_tools = <<<<"A">>, <<"C">>, <<"C">>, <<"A">>, <<"A">>>>
    /\ NamesOf(returned[1].companies) = <<<<"A">>, <<"C">>>>
    /\ At(1, "research_done") # {}

-----------------------------------------------------------------------------
(* C16 *)

\* the step just taken is a step of the research node of run 1 in which an
\* exception escaped the stage's logic: the fallback search raised, or the
\* search or the scrape of one tool raised
ResearchRaised ==
    /\ last'.run = 1
    /\ \/ pc[1] = "research" /\ last'.inp.kind = "raise"
       \/ /\ pc[1] = "research_loop"
          /\ local[1].i <= Len(local[1].tool_names)
          /\ "raise" \in {last'.inp.search.kind, last'.inp.scrape.kind}

ResearchError == ErrorEvent("research failed: ", Error)

ResearchErrorSeen == \E i \in At(1, "error") : Events(1)[i] = ResearchError

\* the run has left the research stage with no companies and no
\* research_done, and the analyze stage takes over
AfterResearchError ==
    /\ At(1, "research_done") = {}
    /\ state[1].companies = <<>>
    /\ pc[1] \in {"analyze", "finalize", "returned"}
    /\ pc[1] # "analyze" => At(1, "analysis_start") # {}

\* C16: when the fallback search, or the search or scrape of a tool part-way
\* through the loop, raises, the research stage ends with an error event,
\* companies is the empty list whatever records had been built, research_done
\* is never emitted, and the analyze stage runs.
C16_ResearchFailureEmptiesCompanies ==
    /\ [][ResearchRaised =>
            /\ NewEvents # <<>>
            /\ NewEvents[Len(NewEvents)] = ResearchError
            /\ \A i \in 1..Len(NewEvents) : NewEvents[i].phase # "research_done"
            /\ state'[1].companies = <<>>
            /\ state'[1].extracted_tools = state[1].extracted_tools
            /\ pc'[1] = "analyze"
            /\ visited'[1] = <<"extract_tools", "research", "analyze">>]_vars
    /\ [](ResearchErrorSeen => AfterResearchError)

\* two records had been built and announced when the scrape of the third
\* tool raised: the stage returned no companies
C16_Witness ==
    /\ pc[1] = "analyze"
    /\ last.at = "research_loop"
    /\ last.inp # Unused
    /\ last.inp.scrape.kind = "raise"
    /\ Cardinality(At(1, "company_ready")) = 2
    /\ Cardinality(At(1, "research_tool_start")) = 3
    /\ state[1].companies = <<>>
    /\ ResearchErrorSeen

-----------------------------------------------------------------------------
(* C17 *)

\* the fields of the state of run 1 the step just taken left as they were
Kept(fields) == \A f \in fields : state'[1][f] = state[1][f]

\* what the extract stage produced: the list its extracted_tools event
\* carried, the empty list if it failed
Extracted ==
    IF At(1, "extracted_tools") = {} THEN <<>>
    ELSE Events(1)[CHOOSE i \in At(1, "extracted_tools") : TRUE].tools

\* C17: each stage changes only its own field of the state: query is the
\* query given to run from the first step to the returned state; the extract
\* stage sets extracted_tools only, research sets companies only and leaves
\* extracted_tools as it found it (empty when it used the fallback titles),
\* analyze sets analysis only.
C17_StagesKeepOtherFields ==
    /\ [][/\ pc[1] = "idle" => state'[1] = InitialState(last'.inp.query)
          /\ NodeOf(pc[1]) = "extract_tools" => Kept({"query", "companies", "analysis"})
          /\ NodeOf(pc[1]) = "research" => Kept({"query", "extracted_tools", "analysis"})
          /\ pc[1] = "analyze" => Kept({"query", "extracted_tools", "companies"})
          /\ pc[1] = "finalize" => state'[1] = state[1] /\ returned'[1] = state[1]]_vars
    /\ [](pc[1] \in {"research", "research_loop", "analyze", "finalize"} =>
              /\ state[1].query = script[1][1].query
              /\ state[1].extracted_tools = Extracted
              /\ At(1, "research_fallback") # {} => state[1].extracted_tools = <<>>)
    /\ [](pc[1] = "returned" =>
              /\ returned[1].query = script[1][1].query
              /\ returned[1].extracted_tools = Extracted
              /\ At(1, "research_fallback") # {} => returned[1].extracted_tools = <<>>
              /\ At(1, "research_done") # {} => returned[1].companies = ReadyCompanies(1))

\* a run with the second query returned the two names extracted, a company
\* for each and the recommendation
C17_Witness ==
    /\ pc[1] = "returned"
    /\ script[1][1].query = "q2"
    /\ returned[1].query = "q2"
    /\ returned[1].extracted_tools = <<<<"C">>, <<"A">>>>
    /\ NamesOf(returned[1].companies) = <<<<"C">>, <<"A">>>>
    /\ returned[1].analysis = "recommendation"

-----------------------------------------------------------------------------
(* C18 *)

IsPrefix(s, t) == Len(s) <= Len(t) /\ s = SubSeq(t, 1, Len(s))

\* C18: a callback that raises on every event does not interrupt the run:
\* compared with a run given the same query and responses and a callback
\* that returns normally, the run attempts the same events (so no error
\* event is added), enters the same nodes, keeps handing its events to the
\* callback, and returns the same state.
C18_CallbackErrorIgnored ==
    /\ pc[2] # "raised"
    /\ IsPrefix(Events(2), Events(1))
    /\ IsPrefix(visited[2], visited[1])
    /\ \A i \in 1..Len(log) : log[i].run = 2 => log[i].to = "raising_cb"
    /\ pc[2] \notin {"idle", "returned"} => Len(script[2]) < Len(script[1])
    /\ (pc[1] = "returned" /\ Len(script[2]) = Len(script[1])) =>
           /\ pc[2] = "returned"
           /\ returned[2] = returned[1]
           /\ Events(2) = Events(1)
           /\ visited[2] = visited[1]

\* the run with the raising callback returned after the callback had raised
\* on the events of all three stages, company_ready among them
C18_Witness ==
    /\ pc[2] = "returned"
    /\ Len(returned[2].companies) = 1
    /\ returned[2].analysis = "recommendation"
    /\ \A p \in {"extracted_tools", "company_ready", "research_done", "analysis_done", "final"} :
           \E i \in 1..Len(log) :
               log[i].run = 2 /\ log[i].ev.phase = p /\ CallbackRaises(log[i].to, log[i].ev)

-----------------------------------------------------------------------------
(* C19 *)

\* the callback each of the two interleaved calls was given
Own(r) == IF r = 1 THEN "cb1" ELSE "cb2"

\* the callbacks the step just taken handed its events to
NewReceivers == {log'[i].to : i \in (Len(log) + 1)..Len(log')}

\* every event run r has emitted reached the callback given to that run
AllToOwn(r) == \A i \in 1..Len(log) : log[i].run = r => log[i].to = Own(r)

\* C19: when a second call of run is made while a first one is executing,
\* the one stored reference sends the first run's events astray: from then
\* on they go to the second run's callback, or nowhere once the second run
\* has ended and cleared the reference, and the events the second run emits
\* after the first has ended are dropped too; so the first run never
\* completes with all of its events delivered to its own callback.
C19_InterleavedRunsLoseEvents ==
    /\ [][/\ (last'.run = 1 /\ Executing(2)) => NewReceivers \subseteq {"cb2"}
          /\ (last'.run = 1 /\ pc[2] = "returned") => NewReceivers \subseteq {None}
          /\ (last'.run = 2 /\ pc[1] = "returned") => NewReceivers \subseteq {None}]_vars
    /\ [](pc[2] # "idle" => callback \in {"cb2", None})
    /\ []((pc[1] = "returned" /\ pc[2] # "idle") => ~AllToOwn(1))

\* both runs have returned; the first delivered its first events to its own
\* callback and a later one to the callback of the second run, and an event
\* of the second run was dropped
C19_Witness ==
    /\ pc[1] = "returned"
    /\ pc[2] = "returned"
    /\ \E i, j \in 1..Len(log) :
           /\ log[i].run = 1 /\ log[i].to = "cb1"
           /\ log[j].run = 1 /\ log[j].to = "cb2" /\ log[j].ev.phase = "company_ready"
    /\ \E i \in 1..Len(log) : log[i].run = 2 /\ log[i].to = None
    /\ ~AllToOwn(2)

-----------------------------------------------------------------------------
(* C20 *)

\* run r was called without a callback argument
NoCallbackArgument(r) == script[r] # <<>> /\ script[r][1].cb = None

\* the instance was built with a callback: the first run, called without
\* one, handed its first event to the constructor's callback
BuiltWithCallback ==
    /\ NoCallbackArgument(1)
    /\ log # <<>>
    /\ log[1].run = 1
    /\ log[1].to = "ctor_cb"

\* C20: on an instance built with a callback, every event of every run
\* called without a callback argument, the second run included, is handed
\* to the constructor's callback.
C20_Original ==
    BuiltWithCallback =>
        \A i \in 1..Len(log) : NoCallbackArgument(log[i].run) => log[i].to = "ctor_cb"

====
